---------------------------- MODULE Spec2Model ----------------------------
(***************************************************************************)
(* Affiliate referral tracker (Express + MongoDB): signup issues a unique  *)
(* referral code per wallet, click routes append ClickEvents, the stats    *)
(* route aggregates them.  The repository holds seven variants of the      *)
(* server; the deployed one is chosen in Init and never changes.           *)
(*                                                                         *)
(* Strings that the code trims, tests for emptiness or concatenates are    *)
(* sequences of characters; every `await` of a handler is one step.        *)
(***************************************************************************)
EXTENDS Naturals, Sequences, FiniteSets

\* ------------------------------------------------------------------ bounds
\* The clock runs up to MaxTime.
MaxTime == 2
\* Clock ticks in one UTC day.
TicksPerDay == 2

\* ------------------------------------------------------- program constants
\* AFF_LEN = parseInt(process.env.AFF_LEN || "9", 10), here run with AFF_LEN=1
AFF_LEN == 1
\* customAlphabet("0123456789abcdefghijklmnopqrstuvwxyz", AFF_LEN): the model
\* draws from two of the 36 characters.
Alphabet == {"0", "a"}

\* The server variants of the repository.
Variants == {"serverA", "serverB", "p1A", "p1B", "p3", "p2", "p4"}

\* ------------------------------------------------------------ pure helpers
IsSpace(ch) == ch = " "

RECURSIVE TrimLeft(_)
TrimLeft(s) ==
  IF s = <<>> THEN <<>>
  ELSE IF IsSpace(Head(s)) THEN TrimLeft(Tail(s)) ELSE s

RECURSIVE TrimRight(_)
TrimRight(s) ==
  IF s = <<>> THEN <<>>
  ELSE IF IsSpace(s[Len(s)]) THEN TrimRight(SubSeq(s, 1, Len(s) - 1)) ELSE s

\* String.prototype.trim
Trim(s) == TrimRight(TrimLeft(s))

\* JavaScript truthiness of a string (or of a missing value): `!name`
Truthy(s) == s # <<>>

\* nanoid(): every string of length AFF_LEN over the alphabet
Codes == [1..AFF_LEN -> Alphabet]


\* ---------------------------------------------------------- configuration
\* FRONTEND_ORIGIN
FrontendOrigin(v) ==
  IF v \in {"serverB", "p1B", "p4"} THEN "https://cr7react.vercel.app"
  ELSE "https://cr7officialsol.com"

\* FRONTEND_SIGNUP_PATH
FRONTEND_SIGNUP_PATH == "/signup"

\* BASE_URL (process.env.BASE_URL unset)
BaseUrl(v) ==
  IF v \in {"serverA", "p1A", "p3"} THEN "https://cr7-admin.onrender.com"
  ELSE "https://affiliate-cr7-admin.onrender.com"

\* The affiliateLink that signup builds from the fresh code: a template
\* string, kept as the sequence of its parts.
AffiliateLink(v, code) ==
  CASE v = "serverA" -> <<FrontendOrigin(v), FRONTEND_SIGNUP_PATH>>
    [] v = "serverB" -> <<FrontendOrigin(v), FRONTEND_SIGNUP_PATH, "?ref=">> \o code
    [] OTHER -> <<BaseUrl(v), "/r/">> \o code

\* A signup that overwrites the link of the returned copy in every variant.
FrontendLinkView(v, u) ==
  [u EXCEPT !.affiliateLink = <<FrontendOrigin(v), FRONTEND_SIGNUP_PATH>>]

\* The user object signup returns for a wallet that is already registered:
\* serverA overwrites the link of the returned copy, the others return the
\* stored document.
ExistingUserView(v, u) ==
  IF v = "serverA"
  THEN [u EXCEPT !.affiliateLink = <<FrontendOrigin(v), FRONTEND_SIGNUP_PATH>>]
  ELSE u

\* ------------------------------------------------------------------ store
\* User.findOne({}): the filter left out, the first User whatever is asked
FindFirstUser(us, c) == IF us = <<>> THEN 0 ELSE 1

\* toLowerCase()
LowerCase(s) == [i \in 1..Len(s) |-> IF s[i] = "A" THEN "a" ELSE s[i]]

\* A lookup under a case-insensitive collation.
FindUserIgnoringCase(us, w) ==
  LET S == {i \in 1..Len(us) : LowerCase(us[i].walletAddress) = LowerCase(w)}
  IN IF S = {} THEN 0 ELSE CHOOSE i \in S : \A j \in S : i <= j

\* User.findOne({ walletAddress }): the _id of the first match, 0 for null
FindUserByWallet(us, w) ==
  LET S == {i \in 1..Len(us) : us[i].walletAddress = w}
  IN IF S = {} THEN 0 ELSE CHOOSE i \in S : \A j \in S : i <= j

\* User.findOne({ affiliateCode }): the _id of the first match, 0 for null
FindUserByCode(us, c) ==
  LET S == {i \in 1..Len(us) : us[i].affiliateCode = c}
  IN IF S = {} THEN 0 ELSE CHOOSE i \in S : \A j \in S : i <= j

\* The document mongoose builds for User.create: the schema trims name and
\* walletAddress (trim: true).
UserDoc(name, wallet, code, link) ==
  [name |-> Trim(name), walletAddress |-> Trim(wallet),
   affiliateCode |-> code, affiliateLink |-> link]

\* required: true on the four String paths: an empty string fails validation
RequiredViolated(doc) ==
  \/ doc.name = <<>>
  \/ doc.walletAddress = <<>>
  \/ doc.affiliateCode = <<>>
  \/ doc.affiliateLink = <<>>

\* A User collection without the index on walletAddress.
NoWalletIndex(us, doc) == FALSE

\* unique: true on walletAddress
WalletIndexViolated(us, doc) ==
  \E i \in 1..Len(us) : us[i].walletAddress = doc.walletAddress

\* A User collection without the index on affiliateCode.
NoCodeIndex(us, doc) == FALSE

\* unique: true on affiliateCode
CodeIndexViolated(us, doc) ==
  \E i \in 1..Len(us) : us[i].affiliateCode = doc.affiliateCode

\* A create that writes doc over the newest User.
ReplaceNewestUser(us, doc) ==
  IF us = <<>> THEN <<doc>> ELSE [us EXCEPT ![Len(us)] = doc]

\* The User collection after User.create(doc) has stored doc.
InsertUser(us, doc) == Append(us, doc)

\* What User.create(doc) does when the store is reachable: "ok", or the
\* error it throws.
CreateOutcome(us, doc) ==
  CASE RequiredViolated(doc) -> "ValidationError"
    [] WalletIndexViolated(us, doc) -> "E11000 walletAddress"
    [] CodeIndexViolated(us, doc) -> "E11000 affiliateCode"
    [] OTHER -> "ok"


\* --------------------------------------------------------------- requests
\* An HTTP response: the status, the keys of the JSON body (none for a
\* redirect or an empty body), and the values the claims read.  `user` and
\* `stats` hold zero or one element: <<>> is null or absent.
Response(status, keys, success, user, stats, location) ==
  [status |-> status, keys |-> keys, success |-> success, user |-> user,
   stats |-> stats, location |-> location]

NoResponse == Response(0, {}, "absent", <<>>, <<>>, <<>>)

\* res.status(400).json({ error: "name and walletAddress are required" })
BadRequest == Response(400, {"error"}, "absent", <<>>, <<>>, <<>>)

\* res.status(503).json({ error: "server error" })
ServiceUnavailable == Response(503, {"error"}, "absent", <<>>, <<>>, <<>>)

\* res.status(500).json({ error: "server error" })
ServerError == Response(500, {"error"}, "absent", <<>>, <<>>, <<>>)

\* res.json({ success: true, [message,] user })
SignupOk(keys, u) == Response(200, keys, "true", <<u>>, <<>>, <<>>)

\* The counts of a stats answer for a wallet without clicks.
NoClicks == [totalClicks |-> 0, uniqueClicks |-> 0]

\* A request slot (a header that is absent from the request is the empty
\* sequence): the handler running in it, its position and its locals.
\* Two history fields of a stats request: overlap, a click request was in
\* flight at some moment of the call; disturbed, a Click of its User was
\* inserted after its first aggregate read; asked, the walletAddress
\* parameter as the client spelled it; floor, the largest counts that stats
\* answers for its wallet had carried when it arrived.
IdleReq ==
  [op |-> "idle", pc |-> "idle", name |-> <<>>, wallet |-> <<>>,
   asked |-> <<>>, floor |-> NoClicks,
   code |-> <<>>, ip |-> <<>>, ua |-> <<>>, ref |-> <<>>, uid |-> 0,
   pending |-> {}, total |-> 0, uniqueAgg |-> <<>>, byDay |-> <<>>,
   overlap |-> FALSE, disturbed |-> FALSE]

\* What the last step sent to a client: the request it answers (as the
\* handler held it), the exception its catch block received, the response.
Answer(q, err, resp) == [q |-> q, err |-> err, resp |-> resp]

NoAnswer == Answer(IdleReq, "none", NoResponse)

VARIABLES
  variant,   \* the server variant that is deployed
  users,     \* the User collection, in insertion order (_id = position)
  clicks,    \* the Click collection, in insertion order
  now,       \* the clock
  req,       \* the request slots
  out,       \* the answer the last step sent, NoAnswer if it sent none
  started,   \* requests that have arrived so far, per kind
  issued,    \* history: <<wallet, code, link>> of every successful signup
  completed, \* history, per User: click requests with the User's code that
             \* ended in a success answer of /api/track or in a redirect
  recorded,  \* history, per User: click requests whose Click.create succeeded
  reported   \* history, per trimmed wallet: the largest totalClicks and the
             \* largest uniqueClicks that stats answers have carried so far

vars ==
  <<variant, users, clicks, now, req, out, started, issued, completed,
    recorded, reported>>

\* The Users that earlier signups of "n" for the wallets "a" and "A" leave
\* behind, the first k of them.
Registered(v, k) ==
  SubSeq(<<UserDoc(<<"n">>, <<"a">>, [i \in 1..AFF_LEN |-> "0"],
                   AffiliateLink(v, [i \in 1..AFF_LEN |-> "0"])),
           UserDoc(<<"n">>, <<"A">>, [i \in 1..AFF_LEN |-> "a"],
                   AffiliateLink(v, [i \in 1..AFF_LEN |-> "a"]))>>, 1, k)

\* The server has started, W.registered Users signed up in an earlier run.
InitWith(W) ==
  /\ variant \in Variants
  /\ \E k \in W.registered : users = Registered(variant, k)
  /\ clicks = <<>>
  /\ now = TicksPerDay - 1
  /\ req = [r \in 1..W.slots |-> IdleReq]
  /\ out = NoAnswer
  /\ started = [k \in {"signup", "click", "stats", "admin"} |-> 0]
  /\ issued = {}
  /\ completed = [i \in 1..Len(users) |-> 0]
  /\ recorded = [i \in 1..Len(users) |-> 0]
  /\ reported = [w \in {Trim(x) : x \in W.wallets} |-> NoClicks]

Free(r) == req[r].op = "idle"

\* One more request of kind k arrives, within the run's budget.
Arrive(k, max) ==
  /\ started[k] < max
  /\ started' = [started EXCEPT ![k] = @ + 1]

\* The handler in slot r goes on to its next await.
Continue(r, q) ==
  /\ req' = [req EXCEPT ![r] = q]
  /\ out' = NoAnswer

\* The handler in slot r answers and ends.
Reply(r, q, err, resp) ==
  /\ req' = [req EXCEPT ![r] = IdleReq]
  /\ out' = Answer(q, err, resp)

\* ----------------------------------------------------------------- signup
\* POST /api/signup up to its first await.
SignupStart(r, name, wallet, max) ==
  /\ Free(r) /\ Arrive("signup", max)
  /\ LET q == [IdleReq EXCEPT !.op = "signup", !.pc = "findWallet",
                              !.name = name, !.wallet = wallet]
     IN IF ~Truthy(name) \/ ~Truthy(wallet)
        THEN Reply(r, q, "none", BadRequest)
        ELSE Continue(r, q)
  /\ UNCHANGED <<variant, users, clicks, now, issued, completed, recorded,
                 reported>>

\* The keys of the body signup answers with for a registered wallet.
ExistingKeys(v) ==
  IF v = "p1A" THEN {"success", "user"} ELSE {"success", "message", "user"}

\* History: a successful signup answered with user object u.
Issue(log, wallet, u) ==
  log \cup {<<Trim(wallet), u.affiliateCode, u.affiliateLink>>}

\* await User.findOne({ walletAddress: walletAddress.trim() }) and the
\* early return for a registered wallet.
SignupFindWallet(r) ==
  /\ req[r].op = "signup" /\ req[r].pc = "findWallet"
  /\ \E storeOk \in BOOLEAN :
       LET q == req[r]
           existing == FindUserByWallet(users, Trim(q.wallet))
           view == ExistingUserView(variant, users[existing])
       IN IF ~storeOk
          THEN Reply(r, q, "StorageError", ServerError) /\ issued' = issued
          ELSE IF existing # 0
          THEN /\ Reply(r, q, "none", SignupOk(ExistingKeys(variant), view))
               /\ issued' = Issue(issued, q.wallet, view)
          ELSE Continue(r, [q EXCEPT !.pc = "genCode"]) /\ issued' = issued
  /\ UNCHANGED <<variant, users, clicks, now, started, completed, recorded,
                 reported>>

\* One iteration of the while (true) loop: affiliateCode = nanoid();
\* dup = await User.findOne({ affiliateCode }); if (!dup) break.
SignupGenCode(r) ==
  /\ req[r].op = "signup" /\ req[r].pc = "genCode"
  /\ \E storeOk \in BOOLEAN, affiliateCode \in Codes :
       LET q == req[r]
           dup == FindUserByCode(users, affiliateCode)
       IN IF ~storeOk THEN Reply(r, q, "StorageError", ServerError)
          ELSE IF dup # 0 THEN Continue(r, q)
          ELSE Continue(r, [q EXCEPT !.pc = "create", !.code = affiliateCode])
  /\ UNCHANGED <<variant, users, clicks, now, started, issued, completed,
                 recorded, reported>>

\* await User.create({...}) and the answer, or the catch block.
SignupCreate(r) ==
  /\ req[r].op = "signup" /\ req[r].pc = "create"
  /\ \E storeOk \in BOOLEAN :
       LET q == req[r]
           doc == UserDoc(q.name, q.wallet, q.code,
                          AffiliateLink(variant, q.code))
           outcome == IF storeOk THEN CreateOutcome(users, doc)
                      ELSE "StorageError"
       IN IF outcome = "ok"
          THEN /\ users' = InsertUser(users, doc)
               /\ completed' = Append(completed, 0)
               /\ recorded' = Append(recorded, 0)
               /\ issued' = Issue(issued, q.wallet, doc)
               /\ Reply(r, q, "none", SignupOk({"success", "user"}, doc))
          ELSE /\ UNCHANGED <<users, completed, recorded, issued>>
               /\ Reply(r, q, outcome, ServerError)
  /\ UNCHANGED <<variant, clicks, now, started, reported>>

\* ----------------------------------------------------------------- clicks
\* The Click document: timestamps: true sets createdAt.
ClickDoc(uid, code, ip, ua, ref, t) ==
  [userId |-> uid, affiliateCode |-> code, ip |-> ip, userAgent |-> ua,
   referrer |-> ref, createdAt |-> t]

\* A create that writes doc over the newest Click.
ReplaceNewestClick(cs, doc) ==
  IF cs = <<>> THEN <<doc>> ELSE [cs EXCEPT ![Len(cs)] = doc]

\* The Click collection after Click.create(doc) has stored doc.
InsertClick(cs, doc) == Append(cs, doc)

\* req.headers["user-agent"] || <default>
UserAgentOf(v, ua) ==
  IF Truthy(ua) THEN ua ELSE IF v = "p4" THEN <<>> ELSE <<"unknown">>

\* req.headers["referer"] || req.headers["referrer"] || <default>
ReferrerOf(v, ref) ==
  IF Truthy(ref) THEN ref ELSE IF v = "p4" THEN <<>> ELSE <<"direct">>

\* The variants that route GET /api/track/:code
HasTrack(v) == v \in {"serverA", "p1B", "p2"}

\* The variants that route GET /r/:code (p3 routes /r/:rest(*) instead)
HasRedirect(v) == v \in {"serverB", "p1A", "p1B", "p2", "p4"}

\* res.redirect(302, url)
Redirect(url) == Response(302, {}, "absent", <<>>, <<>>, url)

SignupUrl(v) == <<FrontendOrigin(v), FRONTEND_SIGNUP_PATH>>

\* The redirect target of GET /r/:code after the lookup (and the insert)
RedirectUrl(v, code) ==
  IF v \in {"serverB", "p1B", "p2"} THEN SignupUrl(v) \o <<"?ref=">> \o code
  ELSE SignupUrl(v)

\* res.status(404).json({ success: false, message: "Invalid code" })
InvalidCode == Response(404, {"success", "message"}, "false", <<>>, <<>>, <<>>)

\* res.status(500).json({ success: false, error: "server error" })
TrackError == Response(500, {"success", "error"}, "false", <<>>, <<>>, <<>>)

\* res.json({ success: true, message: "Click recorded" })
ClickRecorded == Response(200, {"success", "message"}, "true", <<>>, <<>>, <<>>)

\* What the click handlers answer when the code matches no User.
UnknownCodeResponse(v, op, code) ==
  IF op = "track" THEN InvalidCode
  ELSE IF v = "p4" THEN Response(404, {}, "absent", <<>>, <<>>, <<>>)
  ELSE Redirect(RedirectUrl(v, code))

\* A catch block that answers the error on either route.
CatchAnswersError(v, op) == TrackError

\* What the click handlers answer from their catch block.
ClickCatchResponse(v, op) ==
  IF op = "track" THEN TrackError ELSE Redirect(SignupUrl(v))

\* A handler that inserts whatever the lookup returned.
RecordsAlways(uid) == TRUE

\* Whether the handler goes on to Click.create after the lookup.
RecordsClick(uid) == uid # 0

\* History: a click request starts while stats requests are in flight.
MarkOverlap(rq) ==
  [x \in DOMAIN rq |->
     IF rq[x].op = "stats" THEN [rq[x] EXCEPT !.overlap = TRUE] ELSE rq[x]]

\* History: a Click of User uid is inserted while stats requests of that User
\* are between their aggregate reads.
MarkDisturbed(rq, uid) ==
  [x \in DOMAIN rq |->
     IF /\ rq[x].op = "stats" /\ rq[x].pc = "reads" /\ rq[x].uid = uid
        /\ rq[x].pending # {"count", "unique", "byDay"}
     THEN [rq[x] EXCEPT !.disturbed = TRUE] ELSE rq[x]]

ClickInFlight(rq) == \E x \in DOMAIN rq : rq[x].op \in {"track", "redirect"}

\* History: one more click request counted for User uid (0: no User).
Bump(counter, uid) ==
  IF uid = 0 THEN counter ELSE [counter EXCEPT ![uid] = @ + 1]

\* GET /api/track/:code and GET /r/:code up to their first await.
ClickStart(r, op, code, ip, ua, ref, max) ==
  /\ Free(r) /\ Arrive("click", max)
  /\ IF op = "track" THEN HasTrack(variant) ELSE HasRedirect(variant)
  /\ req' = [MarkOverlap(req) EXCEPT ![r] =
       [IdleReq EXCEPT !.op = op, !.pc = "findCode", !.code = code,
                       !.ip = ip, !.ua = ua, !.ref = ref]]
  /\ out' = NoAnswer
  /\ UNCHANGED <<variant, users, clicks, now, issued, completed, recorded,
                 reported>>

\* p3: GET /r/:rest(*) answers at once and reads nothing.
UniversalRedirect(r, code, max) ==
  /\ Free(r) /\ variant = "p3" /\ Arrive("click", max)
  /\ req' = MarkOverlap(req)
  /\ out' = Answer([IdleReq EXCEPT !.op = "redirect", !.code = code], "none",
                   Redirect(SignupUrl(variant)))
  /\ completed' = Bump(completed, FindUserByCode(users, code))
  /\ UNCHANGED <<variant, users, clicks, now, issued, recorded, reported>>

\* await User.findOne({ affiliateCode: code }).select("_id")
ClickFindCode(r) ==
  /\ req[r].op \in {"track", "redirect"} /\ req[r].pc = "findCode"
  /\ \E storeOk \in BOOLEAN :
       LET q == req[r]
           user == FindUserByCode(users, q.code)
       IN IF ~storeOk
          THEN /\ Reply(r, q, "StorageError", ClickCatchResponse(variant, q.op))
               /\ completed' = IF q.op = "redirect" THEN Bump(completed, user)
                               ELSE completed
          ELSE /\ IF RecordsClick(user)
                  THEN Continue(r, [q EXCEPT !.pc = "insert", !.uid = user])
                  ELSE Reply(r, q, "none",
                             UnknownCodeResponse(variant, q.op, q.code))
               /\ completed' = completed
  /\ UNCHANGED <<variant, users, clicks, now, started, issued, recorded,
                 reported>>

\* What GET /r/:code answers when Click.create throws: serverB logs the
\* error inside its own try and redirects as usual.
InsertFailedResponse(v, op, code) ==
  IF op = "redirect" /\ v = "serverB" THEN Redirect(RedirectUrl(v, code))
  ELSE ClickCatchResponse(v, op)

\* await Click.create({...}) and the answer.  The clock has moved on to t
\* since the last insert; createdAt is the time of the insert.
ClickInsert(r) ==
  /\ req[r].op \in {"track", "redirect"} /\ req[r].pc = "insert"
  /\ \E storeOk \in BOOLEAN, t \in now..MaxTime :
       LET q == req[r]
           doc == ClickDoc(q.uid, q.code, q.ip, UserAgentOf(variant, q.ua),
                           ReferrerOf(variant, q.ref), t)
       IN IF storeOk
          THEN /\ clicks' = InsertClick(clicks, doc)
               /\ now' = t
               /\ req' = [MarkDisturbed(req, doc.userId) EXCEPT ![r] = IdleReq]
               /\ out' = Answer(q, "none",
                           IF q.op = "track" THEN ClickRecorded
                           ELSE Redirect(RedirectUrl(variant, q.code)))
               /\ completed' = Bump(completed, q.uid)
               /\ recorded' = Bump(recorded, q.uid)
          ELSE /\ clicks' = clicks
               /\ now' = now
               /\ t = now
               /\ Reply(r, q, "StorageError",
                        InsertFailedResponse(variant, q.op, q.code))
               /\ completed' = IF q.op = "redirect" THEN Bump(completed, q.uid)
                               ELSE completed
               /\ recorded' = recorded
  /\ UNCHANGED <<variant, users, started, issued, reported>>

\* ------------------------------------------------------------------ stats
\* A pipeline whose $match stage passes the Clicks of every User.
MatchAll(cs, uid) == cs

\* { $match: { userId } }
RECURSIVE Match(_, _)
Match(cs, uid) ==
  IF cs = <<>> THEN <<>>
  ELSE IF Head(cs).userId = uid THEN <<Head(cs)>> \o Match(Tail(cs), uid)
  ELSE Match(Tail(cs), uid)

\* Click.countDocuments({}): the filter left out
CountAll(cs, uid) == Len(cs)

\* Click.countDocuments({ userId })
CountDocuments(cs, uid) == Len(Match(cs, uid))

\* { $project: { ip: 1 } } in place of the $group: one document per click
IpOfEach(docs) == [i \in 1..Len(docs) |-> docs[i].ip]

\* { $group: { _id: "$ip" } }: one document per distinct ip
RECURSIVE GroupByIp(_)
GroupByIp(docs) ==
  IF docs = <<>> THEN <<>>
  ELSE LET rest == GroupByIp(SubSeq(docs, 1, Len(docs) - 1))
           ip == docs[Len(docs)].ip
       IN IF \E i \in 1..Len(rest) : rest[i] = ip THEN rest
          ELSE Append(rest, ip)

\* { $count: "unique" }: no document at all for an empty input
CountStage(groups) ==
  IF groups = <<>> THEN <<>> ELSE <<[unique |-> Len(groups)]>>

\* The distinct-ip pipeline without its $match stage
UniqueOverAll(cs, uid) == CountStage(GroupByIp(cs))

\* The distinct-ip aggregate
UniqueAggregate(cs, uid) == CountStage(GroupByIp(Match(cs, uid)))

\* uniqueAgg.length ? uniqueAgg[0].unique : 0
UniqueOf(uniqueAgg) ==
  IF Len(uniqueAgg) # 0 THEN uniqueAgg[1].unique ELSE 0

\* { $substr: ["$createdAt", 0, 10] }: the UTC day of the timestamp
DayOf(t) == t \div TicksPerDay

\* { $group: { _id: <day>, c: { $sum: 1 } } }, { $project: { day, c } }
RECURSIVE GroupByDay(_)
GroupByDay(docs) ==
  IF docs = <<>> THEN <<>>
  ELSE LET rest == GroupByDay(SubSeq(docs, 1, Len(docs) - 1))
           day == DayOf(docs[Len(docs)].createdAt)
       IN IF \E i \in 1..Len(rest) : rest[i].day = day
          THEN [i \in 1..Len(rest) |->
                  IF rest[i].day = day THEN [rest[i] EXCEPT !.c = @ + 1]
                  ELSE rest[i]]
          ELSE Append(rest, [day |-> day, c |-> 1])

\* $group emits its documents in no specified order: every arrangement
Arrangements(groups) ==
  {[i \in 1..Len(groups) |-> groups[p[i]]] :
     p \in {f \in [1..Len(groups) -> 1..Len(groups)] :
              \A i, j \in 1..Len(groups) : f[i] = f[j] => i = j}}

\* { $sort: { day: 1 } }
RECURSIVE SortByDay(_)
SortByDay(docs) ==
  IF docs = <<>> THEN <<>>
  ELSE LET sorted == SortByDay(Tail(docs))
           d == Head(docs)
           k == Cardinality({i \in 1..Len(sorted) : sorted[i].day < d.day})
       IN SubSeq(sorted, 1, k) \o <<d>> \o SubSeq(sorted, k + 1, Len(sorted))

\* The per-day pipeline without its $sort stage
Unsorted(grouped) == grouped

\* The per-day aggregate for one arrangement of the $group output
ByDayAggregate(grouped) == SortByDay(grouped)

\* res.status(404).json({ success: false, message: "User not found", ... })
UserNotFound404 ==
  Response(404, {"success", "message", "user", "stats"}, "false", <<>>,
           <<[totalClicks |-> 0, uniqueClicks |-> 0, clicksByDay |-> <<>>]>>,
           <<>>)

\* res.json({ success: false, message: "User not found", user: null,
\*            stats: { totalClicks: 0, uniqueClicks: 0, clicksByDay: [] } })
UserNotFound ==
  Response(200, {"success", "message", "user", "stats"}, "false", <<>>,
           <<[totalClicks |-> 0, uniqueClicks |-> 0, clicksByDay |-> <<>>]>>,
           <<>>)

\* res.json({ totalClicks, uniqueClicks, clicksByDay }): the stats alone
StatsBare(u, total, uniqueAgg, byDay) ==
  Response(200, {"totalClicks", "uniqueClicks", "clicksByDay"}, "absent",
           <<>>,
           <<[totalClicks |-> total, uniqueClicks |-> UniqueOf(uniqueAgg),
              clicksByDay |-> byDay]>>,
           <<>>)

\* res.json({ success: true, user, stats: {...} })
StatsOk(u, total, uniqueAgg, byDay) ==
  Response(200, {"success", "user", "stats"}, "true", <<u>>,
           <<[totalClicks |-> total, uniqueClicks |-> UniqueOf(uniqueAgg),
              clicksByDay |-> byDay]>>,
           <<>>)

\* GET /api/user/:walletAddress up to its first await.
StatsStart(r, walletAddress, max) ==
  /\ Free(r) /\ Truthy(walletAddress) /\ Arrive("stats", max)
  /\ Continue(r, [IdleReq EXCEPT !.op = "stats", !.pc = "findUser",
                                 !.wallet = Trim(walletAddress),
                                 !.asked = walletAddress,
                                 !.floor = reported[Trim(walletAddress)],
                                 !.overlap = ClickInFlight(req)])
  /\ UNCHANGED <<variant, users, clicks, now, issued, completed, recorded,
                 reported>>

\* await User.findOne({ walletAddress: wallet }) and the answer for a
\* wallet without User.
StatsFindUser(r) ==
  /\ req[r].op = "stats" /\ req[r].pc = "findUser"
  /\ \E storeOk \in BOOLEAN :
       LET q == req[r]
           user == FindUserByWallet(users, q.wallet)
       IN IF ~storeOk THEN Reply(r, q, "StorageError", ServerError)
          ELSE IF user = 0 THEN Reply(r, q, "none", UserNotFound)
          ELSE Continue(r, [q EXCEPT !.pc = "reads", !.uid = user,
                                     !.pending = {"count", "unique", "byDay"}])
  /\ UNCHANGED <<variant, users, clicks, now, started, issued, completed,
                 recorded, reported>>

\* The larger of two numbers.
Max(a, b) == IF a >= b THEN a ELSE b

\* History: a stats answer for wallet w carried total and unique.
Report(rep, w, total, unique) ==
  [rep EXCEPT ![w] = [totalClicks |-> Max(@.totalClicks, total),
                      uniqueClicks |-> Max(@.uniqueClicks, unique)]]

\* One of the three reads of Promise.all has resolved: the answer, once
\* none is pending.
AfterRead(r, q) ==
  IF q.pending = {}
  THEN /\ Reply(r, q, "none",
                StatsOk(users[q.uid], q.total, q.uniqueAgg, q.byDay))
       /\ reported' = Report(reported, q.wallet, q.total, UniqueOf(q.uniqueAgg))
  ELSE Continue(r, q) /\ reported' = reported

\* One of the three store reads of Promise.all resolves or rejects.
StatsRead(r) ==
  /\ req[r].op = "stats" /\ req[r].pc = "reads"
  /\ \E storeOk \in BOOLEAN, read \in req[r].pending :
       LET q == req[r]
           left == q.pending \ {read}
       IN IF ~storeOk
          THEN Reply(r, q, "StorageError", ServerError) /\ reported' = reported
          ELSE CASE read = "count" ->
                      AfterRead(r, [q EXCEPT !.pending = left,
                                      !.total = CountDocuments(clicks, q.uid)])
                 [] read = "unique" ->
                      AfterRead(r, [q EXCEPT !.pending = left,
                                      !.uniqueAgg = UniqueAggregate(clicks, q.uid)])
                 [] read = "byDay" ->
                      \E grouped \in Arrangements(GroupByDay(Match(clicks, q.uid))) :
                        AfterRead(r, [q EXCEPT !.pending = left,
                                        !.byDay = ByDayAggregate(grouped)])
  /\ UNCHANGED <<variant, users, clicks, now, started, issued, completed,
                 recorded>>

\* ------------------------------------------------------------------ admin
\* The variants that route GET /api/admin/users
HasAdmin(v) == v \in {"serverB", "p4"}

\* User.find().select("name walletAddress affiliateCode affiliateLink
\* createdAt").sort({ createdAt: -1 }): the newest User first
FindUsers(us) == [i \in 1..Len(us) |-> us[Len(us) + 1 - i]]

\* res.json(users): the body is the array, held in the `user` field
UsersListed(us) == Response(200, {}, "absent", FindUsers(us), <<>>, <<>>)

\* GET /api/admin/users up to its await.
AdminStart(r, max) ==
  /\ Free(r) /\ HasAdmin(variant) /\ Arrive("admin", max)
  /\ Continue(r, [IdleReq EXCEPT !.op = "admin", !.pc = "find"])
  /\ UNCHANGED <<variant, users, clicks, now, issued, completed, recorded,
                 reported>>

\* await User.find()... and the answer, or the catch block.
AdminFind(r) ==
  /\ req[r].op = "admin" /\ req[r].pc = "find"
  /\ \E storeOk \in BOOLEAN :
       IF storeOk THEN Reply(r, req[r], "none", UsersListed(users))
       ELSE Reply(r, req[r], "StorageError", ServerError)
  /\ UNCHANGED <<variant, users, clicks, now, started, issued, completed,
                 recorded, reported>>

\* ------------------------------------------------------------------- next
\* A workload W: the request slots, the Users registered before the run, the
\* number of requests of each kind that arrive and the values they carry.
Signup(W) ==
  \/ \E r \in DOMAIN req, name \in W.names, wallet \in W.wallets :
       SignupStart(r, name, wallet, W.signups)
  \/ \E r \in DOMAIN req : SignupFindWallet(r)
  \/ \E r \in DOMAIN req : SignupGenCode(r)
  \/ \E r \in DOMAIN req : SignupCreate(r)

Click(W) ==
  \/ \E r \in DOMAIN req, op \in {"track", "redirect"}, code \in Codes,
        ip \in W.ips, ua \in W.uas, ref \in W.refs :
       ClickStart(r, op, code, ip, ua, ref, W.clicks)
  \/ \E r \in DOMAIN req, code \in Codes : UniversalRedirect(r, code, W.clicks)
  \/ \E r \in DOMAIN req : ClickFindCode(r)
  \/ \E r \in DOMAIN req : ClickInsert(r)

Stats(W) ==
  \/ \E r \in DOMAIN req, wallet \in W.wallets : StatsStart(r, wallet, W.stats)
  \/ \E r \in DOMAIN req : StatsFindUser(r)
  \/ \E r \in DOMAIN req : StatsRead(r)

Admin(W) ==
  \/ \E r \in DOMAIN req : AdminStart(r, W.admins)
  \/ \E r \in DOMAIN req : AdminFind(r)

\* Signups on an empty store, two requests at a time.
IssuerSlots == 2
IssuerSignups == 2

Issuer ==
  [slots |-> IssuerSlots, registered |-> {0}, signups |-> IssuerSignups,
   clicks |-> 0, stats |-> 0,
   names |-> {<<"n">>, <<" ", "m">>},
   wallets |-> {<<"a">>, <<" ", "a">>, <<"A">>},
   ips |-> {}, uas |-> {}, refs |-> {}]

Init == InitWith(Issuer)

Next == Signup(Issuer)

Spec == Init /\ [][Next]_vars

\* Clicks and stats on a store with up to two registered Users, two
\* requests at a time.
RecorderSlots == 2
RecorderClicks == 2
RecorderStats == 1

Recorder ==
  [slots |-> RecorderSlots, registered |-> {0, 1, 2}, signups |-> 0,
   clicks |-> RecorderClicks, stats |-> RecorderStats,
   names |-> {}, wallets |-> {<<"a">>, <<" ", "A">>},
   ips |-> {<<>>, <<"A">>}, uas |-> {<<>>}, refs |-> {<<>>}]

InitRecorder == InitWith(Recorder)

NextRecorder == Click(Recorder) \/ Stats(Recorder)

SpecRecorder == InitRecorder /\ [][NextRecorder]_vars

\* Three clicks on one of two registered Users, then the stats.
CountsSlots == 1
CountsClicks == 3
CountsStats == 1

Counts ==
  [slots |-> CountsSlots, registered |-> {2}, signups |-> 0,
   clicks |-> CountsClicks, stats |-> CountsStats,
   names |-> {}, wallets |-> {<<"a">>},
   ips |-> {<<>>, <<"A">>, <<"B">>}, uas |-> {<<>>}, refs |-> {<<>>}]

InitCounts == InitWith(Counts)

NextCounts == Click(Counts) \/ Stats(Counts)

SpecCounts == InitCounts /\ [][NextCounts]_vars

\* Signups with names and wallets that are missing, blank or present, one
\* request at a time.
InputsSlots == 1
InputsSignups == 2

Inputs ==
  [slots |-> InputsSlots, registered |-> {0, 1}, signups |-> InputsSignups,
   clicks |-> 0, stats |-> 0,
   names |-> {<<"n">>, <<" ", "m">>, <<" ">>, <<>>},
   wallets |-> {<<"a">>, <<" ", "A">>, <<" ">>, <<>>},
   ips |-> {}, uas |-> {}, refs |-> {}]

InitInputs == InitWith(Inputs)

NextInputs == Signup(Inputs)

SpecInputs == InitInputs /\ [][NextInputs]_vars

\* Every kind of request on a store with up to one registered User, two
\* requests at a time.
MixedSlots == 2
MixedSignups == 1
MixedClicks == 2
MixedStats == 1
MixedAdmins == 1

Mixed ==
  [slots |-> MixedSlots, registered |-> {0, 1}, signups |-> MixedSignups,
   clicks |-> MixedClicks, stats |-> MixedStats, admins |-> MixedAdmins,
   names |-> {<<"n">>}, wallets |-> {<<"a">>, <<"A">>},
   ips |-> {<<"A">>}, uas |-> {<<>>}, refs |-> {<<>>}]

InitMixed == InitWith(Mixed)

NextMixed == Signup(Mixed) \/ Click(Mixed) \/ Stats(Mixed) \/ Admin(Mixed)

SpecMixed == InitMixed /\ [][NextMixed]_vars

\* Signups for registered and new wallets in several spellings, beside a
\* click and a stats call, two requests at a time.
WalletsSlots == 2
WalletsSignups == 2
WalletsClicks == 1
WalletsStats == 1

Wallets ==
  [slots |-> WalletsSlots, registered |-> {1, 2}, signups |-> WalletsSignups,
   clicks |-> WalletsClicks, stats |-> WalletsStats,
   names |-> {<<" ", "m">>},
   wallets |-> {<<"a">>, <<" ", "a", " ">>, <<"A">>},
   ips |-> {<<"A">>}, uas |-> {<<>>}, refs |-> {<<>>}]

InitWallets == InitWith(Wallets)

NextWallets == Signup(Wallets) \/ Click(Wallets) \/ Stats(Wallets)

SpecWallets == InitWallets /\ [][NextWallets]_vars

\* Signups on a store with at most one registered User, two requests at a
\* time, every await settling in the end: the event loop runs each handler
\* whose await has settled, and nanoid() draws its characters uniformly, so
\* a loop that keeps drawing while some code is unused draws an unused one.
LiveSlots == 2
LiveSignups == 2

Live ==
  [slots |-> LiveSlots, registered |-> {0, 1}, signups |-> LiveSignups,
   clicks |-> 0, stats |-> 0,
   names |-> {<<"n">>}, wallets |-> {<<"a">>, <<"A">>},
   ips |-> {}, uas |-> {}, refs |-> {}]

InitLive == InitWith(Live)

NextLive == Signup(Live)

\* The store has answered the code lookup of slot r (it has not failed).
CodeLookupAnswered(r) == SignupGenCode(r) /\ out'.err = "none"

FairLive ==
  \A r \in 1..LiveSlots :
    /\ WF_vars(SignupFindWallet(r))
    /\ WF_vars(CodeLookupAnswered(r))
    /\ WF_vars(SignupCreate(r))

SpecLive == InitLive /\ [][NextLive]_vars /\ FairLive

\* Two stats calls for one wallet beside a signup and two clicks, on an
\* empty store or on one with two registered Users, two requests at a time.
SuccessiveSlots == 2
SuccessiveSignups == 1
SuccessiveClicks == 2
SuccessiveStats == 2

Successive ==
  [slots |-> SuccessiveSlots, registered |-> {0, 2},
   signups |-> SuccessiveSignups, clicks |-> SuccessiveClicks,
   stats |-> SuccessiveStats,
   names |-> {<<"n">>}, wallets |-> {<<"a">>},
   ips |-> {<<"A">>}, uas |-> {<<>>}, refs |-> {<<>>}]

InitSuccessive == InitWith(Successive)

NextSuccessive ==
  Signup(Successive) \/ Click(Successive) \/ Stats(Successive)

SpecSuccessive == InitSuccessive /\ [][NextSuccessive]_vars

\* ----------------------------------------------------------------- signup
\* The successful signup answers so far that were given for wallet w.
IssuedFor(w) == {t \in issued : t[1] = w}

\* The _ids of the Users stored for wallet w.
RowsOf(w) == {i \in 1..Len(users) : users[i].walletAddress = w}

\* The last step answered a signup with success.
SignupSucceeded == out.q.op = "signup" /\ out.resp.success = "true"

\* C1: any two successful signup answers for the same trimmed wallet carry
\* the same referral code and the same referral link, whatever names and
\* whatever untrimmed spellings of the wallet the calls passed and whatever
\* ran between them.
SignupIdempotent ==
  \A a, b \in issued : a[1] = b[1] => (a[2] = b[2] /\ a[3] = b[3])

\* C1, the case: a signup for " a" under another name has just succeeded for
\* the wallet that an earlier signup of "n" registered.
SignupRepeated ==
  /\ SignupSucceeded
  /\ out.q.wallet = <<" ", "a">> /\ out.q.name = <<" ", "m">>
  /\ \E i \in RowsOf(<<"a">>) :
       /\ users[i].name = <<"n">>
       /\ out.resp.user[1].affiliateCode = users[i].affiliateCode
  /\ IssuedFor(<<"a">>) # {}

\* C2: no two stored Users have the same referral code, in every state that
\* interleaved signups reach.
CodesUnique ==
  \A i, j \in 1..Len(users) :
    users[i].affiliateCode = users[j].affiliateCode => i = j

\* C2, the case: two signups for different wallets drew the same code, both
\* passed the duplicate check, one has inserted and the other's insert has
\* just been refused.
CodeRaceRefused ==
  /\ out.q.op = "signup" /\ out.err = "E11000 affiliateCode"
  /\ \E i \in 1..Len(users) :
       /\ users[i].affiliateCode = out.q.code
       /\ users[i].walletAddress # Trim(out.q.wallet)

\* C3: at most one User is stored per wallet, stored wallets are trimmed,
\* and every wallet that a signup succeeded for has exactly one User.
OneUserPerWallet ==
  /\ \A i, j \in 1..Len(users) :
       users[i].walletAddress = users[j].walletAddress => i = j
  /\ \A i \in 1..Len(users) :
       users[i].walletAddress = Trim(users[i].walletAddress)
  /\ \A t \in issued : Cardinality(RowsOf(t[1])) = 1

\* C3, the case: two concurrent signups for one new wallet have both ended
\* and one User is stored for it.
WalletRaceEnded ==
  /\ started["signup"] = 2 /\ \A r \in DOMAIN req : Free(r)
  /\ out.q.op = "signup" /\ out.err = "E11000 walletAddress"
  /\ Cardinality(RowsOf(Trim(out.q.wallet))) = 1
  /\ IssuedFor(Trim(out.q.wallet)) # {}

\* C4: the signup whose insert hits the unique index on walletAddress
\* answers with success and with the User the other signup stored.
WalletRaceRecovered ==
  (out.q.op = "signup" /\ out.err = "E11000 walletAddress") =>
    /\ out.resp.success = "true"
    /\ \E i \in RowsOf(Trim(out.q.wallet)) :
         out.resp.user = <<ExistingUserView(variant, users[i])>>

\* C5: the signup whose insert hits the unique index on affiliateCode
\* answers with success and has stored a User for its wallet.
CodeRaceRecovered ==
  (out.q.op = "signup" /\ out.err = "E11000 affiliateCode") =>
    /\ out.resp.success = "true"
    /\ RowsOf(Trim(out.q.wallet)) # {}

\* ------------------------------------------------------- clicks and stats
IsClick(q) == q.op \in {"track", "redirect"}

\* The code of click request q matches no stored User.
UnknownCode(q) == IsClick(q) /\ FindUserByCode(users, q.code) = 0

\* C6: no step of a click request whose code matches no stored User (its
\* arrival, its lookup, its answer) changes the Users or the ClickEvents.
UnknownCodeChangesNothing ==
  [][/\ \A r \in DOMAIN req :
          (req'[r] # req[r] /\ (UnknownCode(req[r]) \/ UnknownCode(req'[r])))
            => (users' = users /\ clicks' = clicks)
     /\ UnknownCode(out'.q) => (users' = users /\ clicks' = clicks)]_vars

\* C6, the case: a click request with an unknown code has been answered on a
\* store that holds Users and ClickEvents.
UnknownCodeAnswered ==
  /\ UnknownCode(out.q) /\ out.err = "none"
  /\ Len(users) >= 1 /\ Len(clicks) >= 1

\* The last step answered a stats request for an existing User.
StatsAnswered == out.q.op = "stats" /\ out.resp.success = "true"

\* The stats object of the last answer.
StatsOf == out.resp.stats[1]

DistinctIps(uid) ==
  {clicks[i].ip : i \in {j \in 1..Len(clicks) : clicks[j].userId = uid}}

\* C8: the uniqueClicks of a stats answer is the number of distinct ip values
\* among the User's stored ClickEvents, the empty ip one value like any
\* other (no ClickEvent of the User was inserted between the reads).
UniqueIsDistinctIps ==
  (StatsAnswered /\ ~out.q.disturbed) =>
    StatsOf.uniqueClicks = Cardinality(DistinctIps(out.q.uid))

\* C8, the case: clicks from the ips A, A and the empty ip give 2.
UniqueOfThree ==
  /\ StatsAnswered
  /\ LET mine == Match(clicks, out.q.uid)
     IN /\ Len(mine) = 3
        /\ mine[1].ip = <<"A">> /\ mine[2].ip = <<"A">> /\ mine[3].ip = <<>>
  /\ StatsOf.uniqueClicks = 2

RECURSIVE SumC(_)
SumC(byDay) == IF byDay = <<>> THEN 0 ELSE Head(byDay).c + SumC(Tail(byDay))

\* Sorted strictly ascending by day.
Ascending(byDay) ==
  \A i, j \in 1..Len(byDay) : i < j => byDay[i].day < byDay[j].day

NoZeroCount(byDay) == \A i \in 1..Len(byDay) : byDay[i].c > 0

\* C9 as stated: in every stats answer for an existing User clicksByDay sums
\* to totalClicks, is strictly ascending by day and has no zero count, also
\* when the three reads are interleaved with click insertions.
ByDaySumsToTotal ==
  StatsAnswered =>
    /\ SumC(StatsOf.clicksByDay) = StatsOf.totalClicks
    /\ Ascending(StatsOf.clicksByDay)
    /\ NoZeroCount(StatsOf.clicksByDay)

\* C9: in every stats answer for an existing User clicksByDay is strictly
\* ascending by day and has no zero count; it sums to totalClicks when no
\* ClickEvent of the User was inserted between the three reads.
ByDaySumsWhenQuiet ==
  StatsAnswered =>
    /\ Ascending(StatsOf.clicksByDay)
    /\ NoZeroCount(StatsOf.clicksByDay)
    /\ ~out.q.disturbed =>
         SumC(StatsOf.clicksByDay) = StatsOf.totalClicks

\* C9, the case: a stats call that ran while a click request was in flight
\* reports two clicks on two days.
ByDayOfTwoDays ==
  /\ StatsAnswered /\ out.q.overlap /\ ~out.q.disturbed
  /\ StatsOf.totalClicks = 2
  /\ Len(StatsOf.clicksByDay) = 2

\* Stats request q asks for a wallet that has no User.
AbsentWallet(q) == q.op = "stats" /\ FindUserByWallet(users, q.wallet) = 0

\* C10: a stats request for a wallet without User, once its lookup has
\* answered, gets status 200 with success false, user null, totalClicks 0,
\* uniqueClicks 0 and an empty clicksByDay, and none of its steps changes the
\* Users or the ClickEvents.
AbsentWalletNotFound ==
  [][/\ (AbsentWallet(out'.q) /\ out'.err = "none") =>
          /\ out'.resp.status = 200 /\ "error" \notin out'.resp.keys
          /\ out'.resp.success = "false" /\ out'.resp.user = <<>>
          /\ out'.resp.stats =
               <<[totalClicks |-> 0, uniqueClicks |-> 0, clicksByDay |-> <<>>]>>
          /\ users' = users /\ clicks' = clicks
     /\ \A r \in DOMAIN req :
          (req'[r].pc # req[r].pc /\ (AbsentWallet(req[r]) \/ AbsentWallet(req'[r])))
            => (users' = users /\ clicks' = clicks)]_vars

\* C10, the case: the stats of a wallet without User have been asked for on
\* a store that holds Users and ClickEvents.
AbsentWalletPolled ==
  /\ AbsentWallet(out.q) /\ out.err = "none"
  /\ out.resp.success = "false"
  /\ Len(users) >= 1 /\ Len(clicks) >= 1

\* ------------------------------------------------------- inputs of signup
\* The name or the wallet of signup request q is missing or blank.
BlankInput(q) == Trim(q.name) = <<>> \/ Trim(q.wallet) = <<>>

\* C11: a signup whose name or walletAddress is missing or empty after
\* trimming is answered, when the store works, with the 400 response
\* { error: "name and walletAddress are required" }.
BlankInputRejected ==
  (out.q.op = "signup" /\ BlankInput(out.q) /\ out.err # "StorageError") =>
    (out.resp.status = 400 /\ out.resp.keys = {"error"})

\* -------------------------------------------------------------- histories
\* C12: every stored User has a non-empty referral code, and no step of any
\* request (signup, click, stats, admin listing) removes a User or changes
\* the referral code or the referral link of a stored User.
CodeAssignedOnce ==
  [][/\ \A i \in 1..Len(users) : users[i].affiliateCode # <<>>
     /\ \A i \in 1..Len(users') : users'[i].affiliateCode # <<>>
     /\ Len(users') >= Len(users)
     /\ \A i \in 1..Len(users) :
          /\ users'[i].affiliateCode = users[i].affiliateCode
          /\ users'[i].affiliateLink = users[i].affiliateLink]_vars

\* C12, the case: a signup has added a User beside a registered one, a click
\* was recorded, and the admin listing has just shown both Users.
UsersListedAfterSignup ==
  /\ out.q.op = "admin" /\ out.err = "none"
  /\ Len(out.resp.user) = 2 /\ Len(users) = 2
  /\ issued # {} /\ Len(clicks) = 1

\* C13: no step of any request removes a stored ClickEvent or changes one
\* of its fields: the Click collection only grows at its end.
ClicksAppendOnly ==
  [][/\ Len(clicks') >= Len(clicks)
     /\ SubSeq(clicks', 1, Len(clicks)) = clicks]_vars

\* C13, the case: a second ClickEvent has been stored after a first one and
\* after a signup, and a stats call has read them.
TwoClicksKept ==
  /\ Len(clicks) = 2 /\ issued # {}
  /\ out.q.op = "stats" /\ out.resp.success = "true"
  /\ out.resp.stats[1].totalClicks = 2

\* C14: the userId of every stored ClickEvent is the _id of a stored User
\* whose referral code is the code stored in the ClickEvent.
ClicksReferToUsers ==
  \A i \in 1..Len(clicks) :
    /\ clicks[i].userId \in 1..Len(users)
    /\ users[clicks[i].userId].affiliateCode = clicks[i].affiliateCode

\* C14, the case: ClickEvents are stored for a registered User and for the
\* User that a signup of this run created.
ClicksOfOldAndNewUser ==
  /\ Len(users) = 2 /\ issued # {}
  /\ \E i, j \in 1..Len(clicks) : clicks[i].userId = 1 /\ clicks[j].userId = 2

\* The link ends in the code, as the path segment after /r/ or as the value
\* of the query parameter ref.
EmbedsCode(link, code) ==
  /\ Len(link) > Len(code)
  /\ SubSeq(link, Len(link) - Len(code) + 1, Len(link)) = code
  /\ link[Len(link) - Len(code)] \in {"/r/", "?ref="}

\* C15: the link that a successful signup returns contains the User's own
\* referral code and equals the link stored for the User, which contains the
\* code as well.
LinkEmbedsCode ==
  SignupSucceeded =>
    LET u == out.resp.user[1]
    IN /\ EmbedsCode(u.affiliateLink, u.affiliateCode)
       /\ \A i \in RowsOf(u.walletAddress) :
            /\ users[i].affiliateLink = u.affiliateLink
            /\ EmbedsCode(users[i].affiliateLink, users[i].affiliateCode)

\* -------------------------------------------------------- click recording
\* The last step stored a ClickEvent for the click request it answered.
ClickStored == IsClick(out.q) /\ out.err = "none" /\ out.q.uid # 0

\* C16: a ClickEvent stored for a request without user-agent header has
\* userAgent "unknown", one for a request without referrer header has
\* referrer "direct", its code is the code of the request, and no stored
\* ClickEvent has an empty userAgent or referrer.
SentinelsStored ==
  /\ \A i \in 1..Len(clicks) :
       clicks[i].userAgent # <<>> /\ clicks[i].referrer # <<>>
  /\ ClickStored =>
       LET c == clicks[Len(clicks)]
       IN /\ c.affiliateCode = out.q.code
          /\ out.q.ua = <<>> => c.userAgent = <<"unknown">>
          /\ out.q.ref = <<>> => c.referrer = <<"direct">>

\* C17: the step that answers a GET /r/<code> request whose code belongs to
\* a stored User has appended one ClickEvent of that User.
RedirectRecordsClick ==
  [][(out'.q.op = "redirect" /\ FindUserByCode(users, out'.q.code) # 0) =>
       /\ Len(clicks') = Len(clicks) + 1
       /\ clicks'[Len(clicks')].userId = FindUserByCode(users, out'.q.code)]_vars

\* The same for the requests during which no store operation failed, away
\* from the variant that routes /r/:rest(*).
RedirectRecordsWhenStoreWorks ==
  [][(/\ out'.q.op = "redirect" /\ FindUserByCode(users, out'.q.code) # 0
      /\ out'.err = "none" /\ variant # "p3") =>
       /\ Len(clicks') = Len(clicks) + 1
       /\ clicks'[Len(clicks')].userId = FindUserByCode(users, out'.q.code)]_vars

\* ----------------------------------------------------------------- answers
\* The body has the keys success, user and stats.
StatsShape(resp) == {"success", "user", "stats"} \subseteq resp.keys

\* C18 as stated: every answer of the stats route, a failed store read
\* included, has a body with success, user and stats.
StatsShapeAlways == out.q.op = "stats" => StatsShape(out.resp)

\* C18: an answer of the stats route has status 200 and a body with
\* success, user and stats when its store reads succeeded, for a wallet with
\* and without User; when a store read failed it is 500 { error }.
StatsShapeWhenReadsWork ==
  out.q.op = "stats" =>
    IF out.err = "none"
    THEN out.resp.status = 200 /\ StatsShape(out.resp)
    ELSE out.resp.status = 500 /\ out.resp.keys = {"error"}

\* C18, the case: the User was found, one aggregate read succeeded and the
\* next one failed.
StatsReadFailed ==
  /\ out.q.op = "stats" /\ out.err = "StorageError"
  /\ out.q.uid # 0 /\ Cardinality(out.q.pending) = 2
  /\ Len(clicks) >= 1

\* C19: a signup that a failed store operation ends (the wallet lookup, the
\* code lookup or the insert) answers 500 { error } in the step of the
\* failure, its handler ends there, and no step of a signup other than its
\* successful insert changes the Users.
StorageFailureSurfaced ==
  [][/\ (out'.q.op = "signup" /\ out'.err = "StorageError") =>
          /\ out'.resp.status = 500 /\ out'.resp.keys = {"error"}
          /\ users' = users
          /\ \E r \in DOMAIN req : req[r] = out'.q /\ req'[r] = IdleReq
     /\ \A r \in DOMAIN req :
          (/\ req[r].op = "signup" /\ req'[r] # req[r]
           /\ ~(req[r].pc = "create" /\ out'.q = req[r]
                /\ out'.resp.success = "true"))
            => users' = users]_vars

\* C19, the case: the insert of a signup has failed on a store that holds a
\* User.
SignupInsertFailed ==
  /\ out.q.op = "signup" /\ out.err = "StorageError" /\ out.q.pc = "create"
  /\ Len(users) >= 1

\* C20: the body of every successful signup answer has a token.
SignupCarriesToken == SignupSucceeded => "token" \in out.resp.keys


\* ------------------------------------------------------ registered wallets
\* C21: the steps of a signup whose trimmed wallet has a stored User (its
\* arrival and its wallet lookup) change neither the Users nor the
\* ClickEvents; the lookup ends the request without a code having been drawn
\* and, when the store answers, returns the stored User as it is, whatever
\* name the request passed.
ExistingWalletUntouched ==
  [][\A r \in DOMAIN req :
       /\ (/\ Free(r) /\ req'[r].op = "signup"
           /\ RowsOf(Trim(req'[r].wallet)) # {})
            => (users' = users /\ clicks' = clicks)
       /\ (/\ req[r].op = "signup" /\ req[r].pc = "findWallet"
           /\ RowsOf(Trim(req[r].wallet)) # {} /\ req'[r] # req[r])
            => /\ users' = users /\ clicks' = clicks
               /\ req'[r] = IdleReq /\ out'.q = req[r]
               /\ req[r].code = <<>>
               /\ out'.err = "none" =>
                    /\ out'.resp.success = "true"
                    /\ \E i \in RowsOf(Trim(req[r].wallet)) :
                         out'.resp.user = <<users[i]>>]_vars

\* C21, the case: a signup of "m" for " a " has been answered with the User
\* that "n" registered for "a", on a store with two Users and a ClickEvent.
ExistingWalletAnswered ==
  /\ SignupSucceeded /\ out.q.pc = "findWallet"
  /\ out.q.name = <<" ", "m">> /\ out.q.wallet = <<" ", "a", " ">>
  /\ out.resp.user[1].name = <<"n">>
  /\ out.resp.user[1].walletAddress = <<"a">>
  /\ Len(users) = 2 /\ Len(clicks) = 1

\* ------------------------------------------------------------ termination
\* The codes that no stored User has.
UnusedCodes ==
  {c \in Codes : \A i \in 1..Len(users) : users[i].affiliateCode # c}

\* C22: while some code is unused, a signup in the code-generation loop
\* leaves the loop and every signup request is answered; the loop is left
\* for the insert only with a code of the alphabet that no stored User has.
SignupLeavesLoop ==
  /\ \A r \in 1..LiveSlots :
       (req[r].op = "signup" /\ req[r].pc = "genCode")
         ~> (req[r].pc # "genCode" \/ UnusedCodes = {})
  /\ \A r \in 1..LiveSlots :
       (req[r].op = "signup") ~> (Free(r) \/ UnusedCodes = {})
  /\ [][\A r \in 1..LiveSlots :
          (req[r].pc = "genCode" /\ req'[r].pc = "create")
            => req'[r].code \in UnusedCodes]_vars

\* C22, the case: a signup for a new wallet has left the loop with the code
\* "a" while the code "0" belongs to a registered User.
LoopLeftWithUnusedCode ==
  \E r \in DOMAIN req :
    /\ req[r].op = "signup" /\ req[r].pc = "create"
    /\ req[r].code = [i \in 1..AFF_LEN |-> "a"]
    /\ \E i \in 1..Len(users) :
         users[i].affiliateCode = [j \in 1..AFF_LEN |-> "0"]
    /\ RowsOf(Trim(req[r].wallet)) = {}

\* --------------------------------------------------------------- spellings
\* The wallet of request q as the client spelled it.
Spelled(q) == IF q.op = "stats" THEN q.asked ELSE q.wallet

\* C23: a successful answer of signup or of the stats route carries the
\* stored User whose wallet is, character for character, the trimmed wallet
\* of the request; two wallets have the same User exactly when they are
\* equal after trimming, and two Users never share a code, so wallets that
\* differ in letter case have two Users with two codes.
WalletsComparedTrimmed ==
  /\ (SignupSucceeded \/ StatsAnswered) =>
       LET u == out.resp.user[1]
       IN /\ u.walletAddress = Trim(Spelled(out.q))
          /\ \E i \in 1..Len(users) :
               /\ users[i].walletAddress = u.walletAddress
               /\ users[i].affiliateCode = u.affiliateCode
  /\ \A i, j \in 1..Len(users) :
       i # j => /\ users[i].walletAddress # users[j].walletAddress
                /\ users[i].affiliateCode # users[j].affiliateCode
  /\ \A a, b \in issued : (a[1] = b[1]) <=> (a[2] = b[2])

\* C23, the case: signups for " a " and for "A" have succeeded with two
\* codes, and the stats asked for " a " are those of the User of "a".
SpellingsResolved ==
  /\ StatsAnswered /\ out.q.asked = <<" ", "a", " ">>
  /\ out.resp.user[1].walletAddress = <<"a">>
  /\ \E s, t \in issued : s[1] = <<"a">> /\ t[1] = <<"A">> /\ s[2] # t[2]
  /\ \E i, j \in 1..Len(users) :
       users[i].walletAddress = <<"a">> /\ users[j].walletAddress = <<"A">>

\* -------------------------------------------------------- always redirect
\* The variants whose /r route redirects every visitor: all but the one
\* that answers 404 for an unknown code.
AlwaysRedirects(v) == v # "p4"

\* The url is the frontend signup URL, bare or with the code as ?ref=.
IsSignupUrl(url, code) ==
  url = SignupUrl(variant) \/ url = SignupUrl(variant) \o <<"?ref=">> \o code

\* C24: in the always-redirect variants every answer to GET /r/<code> is a
\* 302 redirect to the frontend signup URL without a body: for a known code,
\* for an unknown code, and when the user lookup or the click insert fails.
RedirectAlwaysAnswered ==
  (out.q.op = "redirect" /\ AlwaysRedirects(variant)) =>
    /\ out.resp.status = 302 /\ out.resp.keys = {}
    /\ IsSignupUrl(out.resp.location, out.q.code)

\* C24, the case: the click insert for a known code has failed and the
\* visitor was redirected, on a store that had recorded a click before.
RedirectedAfterInsertFailure ==
  /\ out.q.op = "redirect" /\ out.q.pc = "insert" /\ out.err = "StorageError"
  /\ AlwaysRedirects(variant) /\ out.resp.status = 302
  /\ Len(clicks) = 1

\* ------------------------------------------------------ unique and total
\* C25 as stated: in every stats answer for an existing User uniqueClicks is
\* at most totalClicks, also when ClickEvents of the User are inserted
\* between the count read and the distinct-ip read.
UniqueAtMostTotal ==
  StatsAnswered => StatsOf.uniqueClicks <= StatsOf.totalClicks

\* C25: in a stats answer for an existing User uniqueClicks is at most
\* totalClicks, and at least 1 when totalClicks is not 0, when no ClickEvent
\* of the User was inserted between the reads of the call.
UniqueAtMostTotalWhenQuiet ==
  (StatsAnswered /\ ~out.q.disturbed) =>
    /\ StatsOf.uniqueClicks <= StatsOf.totalClicks
    /\ StatsOf.totalClicks > 0 => StatsOf.uniqueClicks >= 1

\* C25, the case: a stats call that ran beside a click request reports two
\* clicks from one ip for a User, the other User having a click as well.
TwoClicksOneIp ==
  /\ StatsAnswered /\ ~out.q.disturbed
  /\ StatsOf.totalClicks = 2 /\ StatsOf.uniqueClicks = 1
  /\ Len(users) = 2

\* -------------------------------------------------------- successive stats
\* C26: the totalClicks and the uniqueClicks of a stats answer (for a wallet
\* with or without User) are at least those of every stats answer for the
\* same wallet that had been given when the call arrived.
StatsNeverDecrease ==
  (out.q.op = "stats" /\ out.err = "none") =>
    /\ out.resp.stats[1].totalClicks >= out.q.floor.totalClicks
    /\ out.resp.stats[1].uniqueClicks >= out.q.floor.uniqueClicks

\* C26, the case: a signup has been answered, a first stats call for the
\* wallet has reported one click, and a second call that arrived after that
\* answer reports two.
SecondStatsGrew ==
  /\ StatsAnswered /\ issued # {}
  /\ out.q.floor = [totalClicks |-> 1, uniqueClicks |-> 1]
  /\ StatsOf.totalClicks = 2 /\ StatsOf.uniqueClicks = 1

\* --------------------------------------------------------------- isolation
\* What the stats route answers for User uid from the Click collection cs
\* when nothing is inserted between its reads.
StatsResult(cs, uid) ==
  [totalClicks |-> CountDocuments(cs, uid),
   uniqueClicks |-> UniqueOf(UniqueAggregate(cs, uid)),
   clicksByDay |-> ByDayAggregate(GroupByDay(Match(cs, uid)))]

\* C27: a step changes the stats of a User (totalClicks, uniqueClicks,
\* clicksByDay) only if it answers a click request with that User's code,
\* and then totalClicks grows by one: the stats of every other wallet are
\* the same before and after a click.  The stats are those the stats route
\* answers when no ClickEvent of the User is inserted between its reads.
ClickIsolated ==
  [][/\ \A u \in 1..Len(users) :
          StatsResult(clicks', u) # StatsResult(clicks, u) =>
            /\ IsClick(out'.q) /\ out'.q.code = users[u].affiliateCode
            /\ StatsResult(clicks', u).totalClicks =
                 StatsResult(clicks, u).totalClicks + 1
     /\ (/\ out'.q.op = "stats" /\ out'.resp.success = "true"
         /\ ~out'.q.disturbed)
          => out'.resp.stats[1] = StatsResult(clicks', out'.q.uid)]_vars

\* C27, the case: a click with the code of the second User has been
\* recorded on a store that holds a click of the first User.
ClickOfOtherUser ==
  /\ ClickStored /\ Len(users) = 2
  /\ out.q.code = users[2].affiliateCode
  /\ CountDocuments(clicks, 1) = 1 /\ CountDocuments(clicks, 2) = 1
=============================================================================
